---- MODULE Spec2Model ----
(***************************************************************************)
(* Boxfit server (backend/server.js): the room registry, the GameRoom      *)
(* class, the socket handlers and the two periodic timers, as one state    *)
(* machine.  Every handler is one atomic action (Node's event loop runs a  *)
(* handler to completion); Date.now() is the variable now.                 *)
(***************************************************************************)
EXTENDS Integers, Sequences, FiniteSets, TLC

VARIABLES
    gameRooms,          \* Map roomId -> GameRoom   (function on the ids present)
    players,            \* Map socketId -> { roomId, playerName }
    activeConnections,  \* Set of connected socket ids
    closedConnections,  \* socket ids whose 'disconnect' has fired (ids are never reused)
    now,                \* Date.now()
    last                \* the event handled last: its inputs, result and emitted messages

vars == <<gameRooms, players, activeConnections, closedConnections, now, last>>

------------------------------------------------------------------------------
(* Bounds of the exploration *)

MaxClockSteps == 2   \* the clock is advanced over at most this many turn durations
MaxTurnOrder == 3    \* joins are explored while the room's turnOrder is shorter
MaxTimes == 5        \* rotation counts are drawn from -MaxTimes..MaxTimes
MaxRows == 2         \* placements are explored while fewer rows have been scored

------------------------------------------------------------------------------
(* Program constants *)

GRID_ROWS == 10
GRID_COLS == 10
MAX_PLAYERS == 2
TURN_DURATION_MS == 30000
QUEUE_TARGET == 20
ROW_SCORE == 100
IDLE_TIMEOUT_MS == 300000

NULL == "null"

\* a grid cell holds null, written EMPTY, or a colour, written as its index in COLORS
EMPTY == 0

COLORS == <<"#CAADFF", "#FFADC7", "#F4C8A6", "#a8dadc", "#e2f0cb", "#e9f5db">>

SHAPE_KEYS == <<"I", "O", "T", "L", "J", "S", "Z">>

SHAPES ==
    [ I |-> << <<1, 1, 1, 1>> >>,
      O |-> << <<1, 1>>, <<1, 1>> >>,
      T |-> << <<0, 1, 0>>, <<1, 1, 1>> >>,
      L |-> << <<1, 0>>, <<1, 0>>, <<1, 1>> >>,
      J |-> << <<0, 1>>, <<0, 1>>, <<1, 1>> >>,
      S |-> << <<0, 1, 1>>, <<1, 1, 0>> >>,
      Z |-> << <<1, 1, 0>>, <<0, 1, 1>> >> ]

------------------------------------------------------------------------------
(* Input domains *)

\* socket.io connection ids, in the order the connections arrive
AllSocketIds == <<"s1", "s2", "s3">>
SocketIds == {AllSocketIds[i] : i \in 1..Len(AllSocketIds)}

AllRoomIds == <<"r1">>
RoomIds == {AllRoomIds[i] : i \in 1..Len(AllRoomIds)}

PlayerNames == {"", "ann"}

\* a piece with no shape stands for JavaScript's null / undefined piece
NoPiece == [id |-> "", shape |-> <<>>, color |-> EMPTY]

\* the values randomPiece() returns in the explored runs
Pieces ==
    { [id |-> "p1", shape |-> SHAPES.I, color |-> 1],
      [id |-> "p2", shape |-> SHAPES.O, color |-> 2] }

\* a place-item payload: the piece object the client sends, x, y and rotation
Payload(key, color, rotation, x, y) ==
    [piece |-> [id |-> "c", shape |-> SHAPES[key], color |-> color],
     rotation |-> rotation, x |-> x, y |-> y]

\* payloads of the turn-taking runs: a spot that is free once, and two out of bounds
TurnPayloads ==
    { Payload("I", 1, 0, 0, 0),
      Payload("I", 1, 0, 8, 0),
      Payload("O", 2, -3, -1, 0) }

\* payloads of the board runs: rows 0 and 1 can be completed one at a time or together
BoardPayloads ==
    { Payload("I", 1, 0, 0, 0),
      Payload("I", 1, 0, 4, 0),
      Payload("I", 2, 0, 0, 1),
      Payload("I", 2, 0, 4, 1),
      Payload("O", 3, 0, 8, 0),
      Payload("I", 3, -3, 8, 0),
      Payload("I", 1, 5, 9, 0),
      Payload("I", 1, 0, 7, 0),
      Payload("O", 2, 0, 8, -1) }

------------------------------------------------------------------------------
(* rotateMatrix and randomPiece *)

\* JavaScript's % : the remainder takes the sign of the dividend
JsRem(a, n) == IF a >= 0 THEN a % n ELSE -((-a) % n)

\* one pass of the loop body of rotateMatrix: r[x][rows-1-y] = m[y][x]
rotateOnce(m) ==
    LET rows == Len(m)
        cols == Len(m[1])
    IN  [i \in 1..cols |-> [j \in 1..rows |-> m[rows - j + 1][i]]]

RECURSIVE rotateTimes(_, _)
rotateTimes(m, n) == IF n = 0 THEN m ELSE rotateTimes(rotateOnce(m), n - 1)

\* a variant that takes times % 4 as it comes: a negative count runs the loop 0 times
rotateMatrix_NoNormalise(matrix, times) ==
    IF JsRem(times, 4) <= 0 THEN matrix ELSE rotateTimes(matrix, JsRem(times, 4))

rotateMatrix(matrix, times) == rotateTimes(matrix, JsRem(JsRem(times, 4) + 4, 4))

------------------------------------------------------------------------------
(* JavaScript Map helpers.  this.players is an insertion-ordered Map, kept  *)
(* as the sequence of its values; the other Maps are never iterated and are *)
(* functions on the set of their keys.                                      *)

PlayerIds(ps) == {ps[i].id : i \in 1..Len(ps)}

PlayersHas(ps, socketId) == socketId \in PlayerIds(ps)

\* Map.set: an existing key keeps its position and takes the new value
PlayersSet(ps, socketId, v) ==
    IF PlayersHas(ps, socketId)
    THEN [i \in 1..Len(ps) |-> IF ps[i].id = socketId THEN v ELSE ps[i]]
    ELSE Append(ps, v)

PlayersDelete(ps, socketId) == SelectSeq(ps, LAMBDA p : p.id # socketId)

MapSet(m, k, v) == [j \in DOMAIN m \cup {k} |-> IF j = k THEN v ELSE m[j]]

MapDelete(m, k) == [j \in DOMAIN m \ {k} |-> m[j]]

\* Map.get; a missing key gives undefined, which the code only tests for falsiness
MapGet(m, k) == IF k \in DOMAIN m THEN m[k] ELSE NoPiece

\* Array.indexOf
IndexOf(seq, e) ==
    IF \E i \in 1..Len(seq) : seq[i] = e
    THEN CHOOSE i \in 1..Len(seq) : seq[i] = e /\ \A j \in 1..(i - 1) : seq[j] # e
    ELSE 0

\* Array.splice(idx, 1) at the 1-based index i
Splice1(seq, i) == [j \in 1..(Len(seq) - 1) |-> IF j < i THEN seq[j] ELSE seq[j + 1]]

------------------------------------------------------------------------------
(* class GameRoom.  A method is an operator from the room (and Date.now(),  *)
(* and the piece the random source yields if one is drawn) to the room      *)
(* after the call.  pieceQueue holds unobserved random pieces: only its     *)
(* length is kept and the piece shifted out of it is chosen when shifted.   *)

\* the grid is an array of GRID_ROWS arrays of GRID_COLS cells; the JavaScript
\* cell grid[gy][gx] is Cell(grid, gx, gy)
EmptyGrid == [i \in 1..GRID_ROWS |-> [j \in 1..GRID_COLS |-> EMPTY]]

Cell(grid, gx, gy) == grid[gy + 1][gx + 1]

NewGameRoom(id, t) ==
    [ id |-> id,
      players |-> <<>>,
      grid |-> EmptyGrid,
      gameState |-> "waiting",
      lastActivity |-> t,
      turnOrder |-> <<>>,
      turnIndex |-> 0,
      activePlayerId |-> NULL,
      turnEndsAt |-> 0,
      pieceQueue |-> 0,
      assignedPieceByPlayer |-> [k \in {} |-> NoPiece] ]

touch(room, t) == [room EXCEPT !.lastActivity = t]

\* a variant that forgets to clear the deadline
stopTurns_KeepDeadline(room) ==
    [room EXCEPT !.activePlayerId = NULL, !.gameState = "waiting"]

stopTurns(room) ==
    [room EXCEPT !.activePlayerId = NULL, !.turnEndsAt = 0, !.gameState = "waiting"]

\* a variant that starts the turn without assigning a piece
startWith_NoPiece(room, piece, t) ==
    [room EXCEPT
       !.activePlayerId = room.turnOrder[room.turnIndex + 1],
       !.turnEndsAt = t + TURN_DURATION_MS,
       !.gameState = "playing",
       !.pieceQueue = QUEUE_TARGET - 1]

\* a variant that leaves the deadline of the turn before
startWith_KeepDeadline(room, piece, t) ==
    [room EXCEPT
       !.activePlayerId = room.turnOrder[room.turnIndex + 1],
       !.gameState = "playing",
       !.pieceQueue = QUEUE_TARGET - 1,
       !.assignedPieceByPlayer = MapSet(@, room.turnOrder[room.turnIndex + 1], piece)]

\* startTurn once turnIndex is within turnOrder
startWith(room, piece, t) ==
    [room EXCEPT
       !.activePlayerId = room.turnOrder[room.turnIndex + 1],
       !.turnEndsAt = t + TURN_DURATION_MS,
       !.gameState = "playing",
       !.pieceQueue = QUEUE_TARGET - 1,
       !.assignedPieceByPlayer = MapSet(@, room.turnOrder[room.turnIndex + 1], piece)]

startTurn(room, piece, t) ==
    IF Len(room.turnOrder) = 0 \/ Len(room.players) < 2
    THEN stopTurns(room)
    ELSE startWith(IF room.turnIndex >= Len(room.turnOrder)
                   THEN [room EXCEPT !.turnIndex = 0] ELSE room,
                   piece, t)

advanceTurn(room, piece, t) ==
    IF Len(room.turnOrder) = 0 \/ Len(room.players) < 2
    THEN stopTurns(room)
    ELSE startTurn([room EXCEPT !.turnIndex = (@ + 1) % Len(room.turnOrder)], piece, t)

\* a variant that never sends the assigned piece
PieceEmit_None(room) == <<>>

\* the 'piece' message addPlayer, the tick and place-item send to the active player
PieceEmit(room) ==
    IF room.activePlayerId # NULL
       /\ MapGet(room.assignedPieceByPlayer, room.activePlayerId) # NoPiece
    THEN << [ev |-> "piece", to |-> room.activePlayerId,
             piece |-> MapGet(room.assignedPieceByPlayer, room.activePlayerId)] >>
    ELSE <<>>

StateEmit(roomId) == << [ev |-> "game-state", to |-> roomId, piece |-> NoPiece] >>

\* state(): the snapshot of a room
state(room) ==
    [id |-> room.id, gameState |-> room.gameState, grid |-> room.grid,
     players |-> room.players, playerCount |-> Len(room.players),
     maxPlayers |-> MAX_PLAYERS, activePlayerId |-> room.activePlayerId,
     turnEndsAt |-> room.turnEndsAt, turnDurationMs |-> TURN_DURATION_MS]

Accepted(room) == [ok |-> TRUE, room |-> room, emits |-> PieceEmit(room)]

\* addPlayer after the player is added and the room touched
addAccepted(room, piece, t) ==
    IF Len(room.players) = 2 /\ room.activePlayerId = NULL
    THEN Accepted(startTurn([room EXCEPT !.gameState = "playing"], piece, t))
    ELSE [ok |-> TRUE, room |-> [room EXCEPT !.gameState = "waiting"], emits |-> <<>>]

\* a variant without the limit on the roster
addPlayer_NoLimit(room, socketId, playerName, piece, t) ==
    addAccepted(
        touch([room EXCEPT
                 !.players = PlayersSet(@, socketId,
                                [id |-> socketId, name |-> playerName, score |-> 0]),
                 !.turnOrder = Append(@, socketId),
                 !.assignedPieceByPlayer = MapSet(@, socketId, NoPiece)], t),
        piece, t)

addPlayer(room, socketId, playerName, piece, t) ==
    IF Len(room.players) >= MAX_PLAYERS
    THEN [ok |-> FALSE, room |-> room, emits |-> <<>>]
    ELSE addAccepted(
             touch([room EXCEPT
                      !.players = PlayersSet(@, socketId,
                                     [id |-> socketId, name |-> playerName, score |-> 0]),
                      !.turnOrder = Append(@, socketId),
                      !.assignedPieceByPlayer = MapSet(@, socketId, NoPiece)], t),
             piece, t)

\* a variant that never reports the room empty
Removed_NeverEmpty(room, t) == [empty |-> FALSE, room |-> touch(room, t)]

\* a variant that clears the board when a player leaves
Removed_ClearsBoard(room, t) ==
    [empty |-> Len(room.players) = 0, room |-> touch([room EXCEPT !.grid = EmptyGrid], t)]

Removed(room, t) == [empty |-> Len(room.players) = 0, room |-> touch(room, t)]

\* a variant that lets the game run on when a player leaves
removeDeleted_KeepsPlaying(room, socketId, piece, t) == Removed(room, t)

\* removePlayer after the player is deleted from players, assignedPieceByPlayer, turnOrder
removeDeleted(room, socketId, piece, t) ==
    Removed(IF Len(room.players) < 2
            THEN stopTurns(room)
            ELSE IF room.activePlayerId = socketId
                 THEN advanceTurn([room EXCEPT !.activePlayerId = NULL], piece, t)
                 ELSE room,
            t)

SpliceOut(seq, idx) == IF idx # 0 THEN Splice1(seq, idx) ELSE seq

removePlayer(room, socketId, piece, t) ==
    removeDeleted([room EXCEPT
                     !.players = PlayersDelete(@, socketId),
                     !.assignedPieceByPlayer = MapDelete(@, socketId),
                     !.turnOrder = SpliceOut(@, IndexOf(@, socketId))],
                  socketId, piece, t)

\* the offsets (rx, ry), 0-based, at which the shape matrix is truthy
Occupied(shape) ==
    {<<rx, ry>> \in (0..3) \X (0..3) :
        ry < Len(shape) /\ rx < Len(shape[ry + 1]) /\ shape[ry + 1][rx + 1] # 0}

\* a variant that checks every offset of the matrix, the falsy ones too
canPlace_WholeMatrix(grid, shape, x, y) ==
    \A ry \in 0..(Len(shape) - 1) : \A rx \in 0..(Len(shape[ry + 1]) - 1) :
        /\ ~(x + rx < 0 \/ y + ry < 0 \/ x + rx >= GRID_COLS \/ y + ry >= GRID_ROWS)
        /\ Cell(grid, x + rx, y + ry) = EMPTY

\* a variant that checks the bounds and not the cells
canPlace_BoundsOnly(grid, shape, x, y) ==
    \A o \in Occupied(shape) :
        ~(x + o[1] < 0 \/ y + o[2] < 0 \/ x + o[1] >= GRID_COLS \/ y + o[2] >= GRID_ROWS)

canPlace(grid, shape, x, y) ==
    \A o \in Occupied(shape) :
        LET gx == x + o[1]
            gy == y + o[2]
        IN  /\ ~(gx < 0 \/ gy < 0 \/ gx >= GRID_COLS \/ gy >= GRID_ROWS)
            /\ Cell(grid, gx, gy) = EMPTY

\* the grid after the write loop of placePiece
WritePiece(grid, shape, color, x, y) ==
    LET occ == Occupied(shape)
    IN  [i \in 1..GRID_ROWS |-> [j \in 1..GRID_COLS |->
            IF <<(j - 1) - x, (i - 1) - y>> \in occ THEN color ELSE grid[i][j]]]

FullRows(grid) ==
    {row \in 0..(GRID_ROWS - 1) :
        \A col \in 0..(GRID_COLS - 1) : Cell(grid, col, row) # EMPTY}

\* a variant with gravity: full rows are removed and empty rows enter at the top
ClearRows_Collapse(grid) ==
    LET kept == SelectSeq(grid, LAMBDA row : \E j \in 1..GRID_COLS : row[j] = EMPTY)
    IN  [i \in 1..(GRID_ROWS - Len(kept)) |-> [j \in 1..GRID_COLS |-> EMPTY]] \o kept

\* a variant without the row loop: full rows stay on the board
ClearRows_None(grid) == grid

\* a variant that empties the whole board once a row is full
ClearRows_WholeBoard(grid) ==
    IF FullRows(grid) = {} THEN grid ELSE EmptyGrid

\* the grid after the row loop of placePiece: full rows set to null in place
ClearRows(grid) ==
    LET full == FullRows(grid)
    IN  [i \in 1..GRID_ROWS |-> [j \in 1..GRID_COLS |->
            IF (i - 1) \in full THEN EMPTY ELSE grid[i][j]]]

\* a variant that awards one row's worth for every placement
AddScore_Flat(ps, socketId, rowsCleared) ==
    [i \in 1..Len(ps) |->
        IF ps[i].id = socketId
        THEN [ps[i] EXCEPT !.score = @ + ROW_SCORE]
        ELSE ps[i]]

AddScore(ps, socketId, rowsCleared) ==
    [i \in 1..Len(ps) |->
        IF ps[i].id = socketId /\ rowsCleared > 0
        THEN [ps[i] EXCEPT !.score = @ + rowsCleared * ROW_SCORE]
        ELSE ps[i]]

\* placePiece from the row loop on: written is the grid after the write loop
placeScored(room, socketId, written, rowsCleared, piece, t) ==
    [res |-> [sent |-> TRUE, ok |-> TRUE, reason |-> "", rowsCleared |-> rowsCleared],
     room |-> advanceTurn(
                 touch([room EXCEPT
                          !.grid = ClearRows(written),
                          !.players = AddScore(@, socketId, rowsCleared),
                          !.assignedPieceByPlayer = MapSet(@, socketId, NoPiece)], t),
                 piece, t)]

placeValid(room, socketId, written, piece, t) ==
    placeScored(room, socketId, written, Cardinality(FullRows(written)), piece, t)

Rejected(reason) == [sent |-> TRUE, ok |-> FALSE, reason |-> reason, rowsCleared |-> 0]

\* a variant that looks at the board before it looks at the turn
placePiece_BoardFirst(room, socketId, shape, color, x, y, piece, t) ==
    IF ~PlayersHas(room.players, socketId)
    THEN [res |-> Rejected("not-in-room"), room |-> room]
    ELSE IF ~canPlace(room.grid, shape, x, y)
    THEN [res |-> Rejected("invalid-placement"), room |-> room]
    ELSE IF room.activePlayerId # NULL /\ socketId # room.activePlayerId
    THEN [res |-> Rejected("not-your-turn"), room |-> room]
    ELSE IF room.gameState # "playing"
    THEN [res |-> Rejected("game-not-started"), room |-> room]
    ELSE placeValid(room, socketId, WritePiece(room.grid, shape, color, x, y), piece, t)

\* a variant that touches the room before it rejects an invalid placement
placePiece_TouchOnReject(room, socketId, shape, color, x, y, piece, t) ==
    IF ~PlayersHas(room.players, socketId)
    THEN [res |-> Rejected("not-in-room"), room |-> room]
    ELSE IF room.activePlayerId # NULL /\ socketId # room.activePlayerId
    THEN [res |-> Rejected("not-your-turn"), room |-> room]
    ELSE IF room.gameState # "playing"
    THEN [res |-> Rejected("game-not-started"), room |-> room]
    ELSE IF ~canPlace(room.grid, shape, x, y)
    THEN [res |-> Rejected("invalid-placement"), room |-> touch(room, t)]
    ELSE placeValid(room, socketId, WritePiece(room.grid, shape, color, x, y), piece, t)

placePiece(room, socketId, shape, color, x, y, piece, t) ==
    IF ~PlayersHas(room.players, socketId)
    THEN [res |-> Rejected("not-in-room"), room |-> room]
    ELSE IF room.activePlayerId # NULL /\ socketId # room.activePlayerId
    THEN [res |-> Rejected("not-your-turn"), room |-> room]
    ELSE IF room.gameState # "playing"
    THEN [res |-> Rejected("game-not-started"), room |-> room]
    ELSE IF ~canPlace(room.grid, shape, x, y)
    THEN [res |-> Rejected("invalid-placement"), room |-> room]
    ELSE placeValid(room, socketId, WritePiece(room.grid, shape, color, x, y), piece, t)

\* a variant that also restarts the turn order from its first entry
reset_TurnIndex(room, t) ==
    touch([room EXCEPT
             !.grid = EmptyGrid,
             !.turnIndex = 0,
             !.players = [i \in 1..Len(@) |-> [@[i] EXCEPT !.score = 0]]], t)

reset(room, t) ==
    touch([room EXCEPT
             !.grid = EmptyGrid,
             !.players = [i \in 1..Len(@) |-> [@[i] EXCEPT !.score = 0]]], t)

------------------------------------------------------------------------------
(* The event handlers.  last records the event just handled.                *)

NoRes == [sent |-> FALSE, ok |-> FALSE, reason |-> "", rowsCleared |-> 0]

Event(op, sid, rid, res, emits) ==
    [op |-> op, sid |-> sid, rid |-> rid, res |-> res, emits |-> emits, late |-> FALSE]

Init ==
    /\ gameRooms = [r \in {} |-> NewGameRoom(r, 0)]
    /\ players = [s \in {} |-> [roomId |-> NULL, playerName |-> ""]]
    /\ activeConnections = {}
    /\ closedConnections = {}
    /\ now = 0
    /\ last = Event("init", NULL, NULL, NoRes, <<>>)

\* io.on('connection')
Connect(s) ==
    /\ s \notin activeConnections \cup closedConnections
    /\ activeConnections' = activeConnections \cup {s}
    /\ last' = Event("connect", s, NULL, NoRes, <<>>)
    /\ UNCHANGED <<gameRooms, players, closedConnections, now>>

\* socket.on('disconnect')
Disconnect(s, piece) ==
    /\ s \in activeConnections
    /\ activeConnections' = activeConnections \ {s}
    /\ closedConnections' = closedConnections \cup {s}
    /\ players' = MapDelete(players, s)
    /\ IF s \in DOMAIN players /\ players[s].roomId \in DOMAIN gameRooms
       THEN \E roomId \in {players[s].roomId} :
            \E rm \in {removePlayer(gameRooms[roomId], s, piece, now)} :
                IF rm.empty
                THEN /\ gameRooms' = MapDelete(gameRooms, roomId)
                     /\ last' = Event("disconnect", s, roomId, NoRes, <<>>)
                ELSE /\ gameRooms' = [gameRooms EXCEPT ![roomId] = rm.room]
                     /\ last' = Event("disconnect", s, roomId, NoRes, StateEmit(roomId))
       ELSE /\ gameRooms' = gameRooms
            /\ last' = Event("disconnect", s, NULL, NoRes, <<>>)
    /\ UNCHANGED now

\* socket.on('join-room')
JoinRoom(s, playerName, roomId, piece) ==
    /\ s \in activeConnections
    /\ IF playerName = "" \/ roomId = ""
       THEN /\ last' = Event("join-room", s, roomId, NoRes,
                         << [ev |-> "join-error", to |-> s, piece |-> NoPiece] >>)
            /\ UNCHANGED <<gameRooms, players>>
       ELSE \E room \in {IF roomId \in DOMAIN gameRooms
                           THEN gameRooms[roomId]
                           ELSE NewGameRoom(roomId, now)} :
            \E a \in {addPlayer(room, s, playerName, piece, now)} :
                IF ~a.ok
                THEN /\ gameRooms' = MapSet(gameRooms, roomId, room)
                     /\ players' = players
                     /\ last' = Event("join-room", s, roomId, NoRes,
                                  << [ev |-> "room-full", to |-> s, piece |-> NoPiece] >>)
                ELSE /\ gameRooms' = MapSet(gameRooms, roomId, a.room)
                     /\ players' = MapSet(players, s,
                                       [roomId |-> roomId, playerName |-> playerName])
                     /\ last' = Event("join-room", s, roomId,
                                  [NoRes EXCEPT !.ok = TRUE],
                                  a.emits \o StateEmit(roomId)
                                    \o (IF a.room.activePlayerId = s
                                        THEN PieceEmit(a.room) ELSE <<>>))
    /\ UNCHANGED <<activeConnections, closedConnections, now>>

\* the guard shared by request-piece, place-item and reset:
\* the socket's players entry names roomId and the room exists
InRoom(s, roomId) ==
    /\ s \in DOMAIN players
    /\ players[s].roomId = roomId
    /\ roomId \in DOMAIN gameRooms

\* socket.on('request-piece')
\* a variant that draws a fresh piece on every request
RequestPiece_Redraws(s, roomId, piece) ==
    /\ s \in activeConnections
    /\ IF InRoom(s, roomId)
          /\ ~(gameRooms[roomId].gameState # "playing" \/ Len(gameRooms[roomId].players) < 2)
          /\ gameRooms[roomId].activePlayerId = s
       THEN /\ gameRooms' =
                  [gameRooms EXCEPT ![roomId] =
                      [@ EXCEPT !.pieceQueue = QUEUE_TARGET - 1,
                                !.assignedPieceByPlayer = MapSet(@, s, piece)]]
            /\ last' = Event("request-piece", s, roomId, NoRes,
                         << [ev |-> "piece", to |-> s, piece |-> piece] >>)
       ELSE /\ gameRooms' = gameRooms
            /\ last' = Event("request-piece", s, roomId, NoRes, <<>>)
    /\ UNCHANGED <<players, activeConnections, closedConnections, now>>

RequestPiece(s, roomId, piece) ==
    /\ s \in activeConnections
    /\ IF InRoom(s, roomId)
          /\ ~(gameRooms[roomId].gameState # "playing" \/ Len(gameRooms[roomId].players) < 2)
          /\ gameRooms[roomId].activePlayerId = s
       THEN \E room \in {gameRooms[roomId]} :
            \E held \in {MapGet(room.assignedPieceByPlayer, s)} :
            \E p \in {IF held = NoPiece THEN piece ELSE held} :
                /\ gameRooms' =
                      IF held = NoPiece
                      THEN [gameRooms EXCEPT ![roomId] =
                              [room EXCEPT !.pieceQueue = QUEUE_TARGET - 1,
                                           !.assignedPieceByPlayer = MapSet(@, s, p)]]
                      ELSE gameRooms
                /\ last' = Event("request-piece", s, roomId, NoRes,
                             << [ev |-> "piece", to |-> s, piece |-> p] >>)
       ELSE /\ gameRooms' = gameRooms
            /\ last' = Event("request-piece", s, roomId, NoRes, <<>>)
    /\ UNCHANGED <<players, activeConnections, closedConnections, now>>

\* a variant that skips the turn at the deadline itself
Expired_AtDeadline(room, t) ==
    /\ room.activePlayerId # NULL
    /\ ~(room.gameState # "playing" \/ Len(room.players) < 2)
    /\ t >= room.turnEndsAt

\* the rooms the turn timeout tick skips at time t
Expired(room, t) ==
    /\ room.activePlayerId # NULL
    /\ ~(room.gameState # "playing" \/ Len(room.players) < 2)
    /\ t > room.turnEndsAt

\* socket.on('place-item'); submitted is the piece object the client sends
PlaceItem(s, roomId, submitted, x, y, rotation, piece) ==
    /\ s \in activeConnections
    /\ IF InRoom(s, roomId)
       THEN \E rotated \in {rotateMatrix(submitted.shape, rotation)} :
            \E pl \in {placePiece(gameRooms[roomId], s, rotated, submitted.color,
                                  x, y, piece, now)} :
                /\ gameRooms' = [gameRooms EXCEPT ![roomId] = pl.room]
                /\ last' = [Event("place-item", s, roomId, pl.res,
                             << [ev |-> "placement-result", to |-> s, piece |-> NoPiece] >>
                               \o (IF pl.res.ok
                                   THEN StateEmit(roomId) \o PieceEmit(pl.room)
                                   ELSE <<>>))
                            EXCEPT !.late = Expired(gameRooms[roomId], now)]
       ELSE /\ gameRooms' = gameRooms
            /\ last' = Event("place-item", s, roomId, NoRes, <<>>)
    /\ UNCHANGED <<players, activeConnections, closedConnections, now>>

\* a variant that sets up the room a reset names when the registry lacks it
Reset_CreatesRoom(s, roomId) ==
    /\ s \in activeConnections
    /\ IF s \in DOMAIN players /\ players[s].roomId = roomId
       THEN /\ gameRooms' = MapSet(gameRooms, roomId,
                                   reset(IF roomId \in DOMAIN gameRooms
                                         THEN gameRooms[roomId]
                                         ELSE NewGameRoom(roomId, now), now))
            /\ last' = Event("reset", s, roomId, [NoRes EXCEPT !.ok = TRUE],
                             StateEmit(roomId))
       ELSE /\ gameRooms' = gameRooms
            /\ last' = Event("reset", s, roomId, NoRes, <<>>)
    /\ UNCHANGED <<players, activeConnections, closedConnections, now>>

\* a variant that resets every room of the registry
Reset_AllRooms(s, roomId) ==
    /\ s \in activeConnections
    /\ IF InRoom(s, roomId)
       THEN /\ gameRooms' = [r \in DOMAIN gameRooms |-> reset(gameRooms[r], now)]
            /\ last' = Event("reset", s, roomId, [NoRes EXCEPT !.ok = TRUE],
                             StateEmit(roomId))
       ELSE /\ gameRooms' = gameRooms
            /\ last' = Event("reset", s, roomId, NoRes, <<>>)
    /\ UNCHANGED <<players, activeConnections, closedConnections, now>>

\* socket.on('reset')
Reset(s, roomId) ==
    /\ s \in activeConnections
    /\ IF InRoom(s, roomId)
       THEN /\ gameRooms' = [gameRooms EXCEPT ![roomId] = reset(@, now)]
            /\ last' = Event("reset", s, roomId, [NoRes EXCEPT !.ok = TRUE],
                             StateEmit(roomId))
       ELSE /\ gameRooms' = gameRooms
            /\ last' = Event("reset", s, roomId, NoRes, <<>>)
    /\ UNCHANGED <<players, activeConnections, closedConnections, now>>

\* a variant in which a forced skip counts as activity
skipTurn_Touches(room, piece, t) ==
    touch(advanceTurn([room EXCEPT
                         !.assignedPieceByPlayer = MapSet(@, room.activePlayerId, NoPiece)],
                      piece, t), t)

\* a variant that restarts the turn of the player it skips
skipTurn_SamePlayer(room, piece, t) ==
    startTurn([room EXCEPT !.assignedPieceByPlayer = MapSet(@, room.activePlayerId, NoPiece)],
              piece, t)

\* the body of the tick for one expired room
skipTurn(room, piece, t) ==
    advanceTurn([room EXCEPT !.assignedPieceByPlayer = MapSet(@, room.activePlayerId, NoPiece)],
                piece, t)

RECURSIVE TickEmits(_, _)
TickEmits(rooms, i) ==
    IF i > Len(AllRoomIds)
    THEN <<>>
    ELSE (IF AllRoomIds[i] \in DOMAIN gameRooms /\ Expired(gameRooms[AllRoomIds[i]], now)
          THEN StateEmit(AllRoomIds[i]) \o PieceEmit(rooms[AllRoomIds[i]])
          ELSE <<>>) \o TickEmits(rooms, i + 1)

\* setInterval(..., 1000): the turn timeout tick; draws[r] is the piece room r shifts
TurnTick(draws) ==
    /\ gameRooms' = [r \in DOMAIN gameRooms |->
                        IF Expired(gameRooms[r], now)
                        THEN skipTurn(gameRooms[r], draws[r], now)
                        ELSE gameRooms[r]]
    /\ last' = Event("tick", NULL,
                     IF \E r \in DOMAIN gameRooms : Expired(gameRooms[r], now)
                     THEN CHOOSE r \in DOMAIN gameRooms : Expired(gameRooms[r], now)
                     ELSE NULL,
                     NoRes, TickEmits(gameRooms', 1))
    /\ UNCHANGED <<players, activeConnections, closedConnections, now>>

\* a variant that spares the rooms in which a game is running
Inactive_SparesPlaying(room, t) ==
    \/ Len(room.players) = 0
    \/ (t - room.lastActivity > IDLE_TIMEOUT_MS /\ room.gameState # "playing")

\* the rooms the cleanup deletes at time t
Inactive(room, t) ==
    \/ Len(room.players) = 0
    \/ t - room.lastActivity > IDLE_TIMEOUT_MS

\* setInterval(..., 5 * 60 * 1000): clean up inactive rooms
Cleanup ==
    /\ gameRooms' = [r \in {q \in DOMAIN gameRooms : ~Inactive(gameRooms[q], now)}
                        |-> gameRooms[r]]
    /\ last' = Event("cleanup", NULL,
                     IF \E r \in DOMAIN gameRooms : Inactive(gameRooms[r], now)
                     THEN CHOOSE r \in DOMAIN gameRooms : Inactive(gameRooms[r], now)
                     ELSE NULL,
                     NoRes, <<>>)
    /\ UNCHANGED <<players, activeConnections, closedConnections, now>>

\* time passes between events
AdvanceClock(d) ==
    /\ now' = now + d
    /\ last' = Event("clock", NULL, NULL, NoRes, <<>>)
    /\ UNCHANGED <<gameRooms, players, activeConnections, closedConnections>>

------------------------------------------------------------------------------
(* The specifications.  The environment sends any event at any time; the     *)
(* random source is consulted only where the handler reaches startTurn or    *)
(* shifts the queue, so the draw is quantified only there.                   *)

MaxNow == MaxClockSteps * TURN_DURATION_MS

\* the n-th connection gets the n-th socket id
NextSocketId(s) ==
    \A i \in 1..Len(AllSocketIds) :
        AllSocketIds[i] = s =>
            \A j \in 1..(i - 1) : AllSocketIds[j] \in activeConnections \cup closedConnections

\* joins are explored while the room's turnOrder is short
JoinBounded(roomId) ==
    roomId \in DOMAIN gameRooms => Len(gameRooms[roomId].turnOrder) < MaxTurnOrder

RECURSIVE SumScores(_, _)
SumScores(ps, i) == IF i > Len(ps) THEN 0 ELSE ps[i].score + SumScores(ps, i + 1)

\* placements are explored while the room has scored fewer than MaxRows rows
PlaceBounded(roomId) ==
    roomId \in DOMAIN gameRooms =>
        SumScores(gameRooms[roomId].players, 1) < MaxRows * ROW_SCORE

JoinDraws(roomId) ==
    IF roomId \in DOMAIN gameRooms /\ Len(gameRooms[roomId].players) = 1
    THEN Pieces ELSE {NoPiece}

LeaveDraws(s) ==
    IF /\ s \in DOMAIN players
       /\ players[s].roomId \in DOMAIN gameRooms
       /\ gameRooms[players[s].roomId].activePlayerId = s
       /\ Len(PlayersDelete(gameRooms[players[s].roomId].players, s)) >= 2
    THEN Pieces ELSE {NoPiece}

ActiveDraws(s, roomId) ==
    IF InRoom(s, roomId) /\ gameRooms[roomId].activePlayerId = s
    THEN Pieces ELSE {NoPiece}

ExpiredRooms == {r \in DOMAIN gameRooms : Expired(gameRooms[r], now)}

Connects(sockets) == \E s \in sockets : NextSocketId(s) /\ Connect(s)

Disconnects(sockets) ==
    \E s \in sockets : \E piece \in LeaveDraws(s) : Disconnect(s, piece)

Joins(sockets, names) ==
    \E s \in sockets, n \in names, r \in RoomIds :
        /\ JoinBounded(r)
        /\ \E piece \in JoinDraws(r) : JoinRoom(s, n, r, piece)

Requests(sockets) ==
    \E s \in sockets, r \in RoomIds :
        \E piece \in ActiveDraws(s, r) : RequestPiece(s, r, piece)

Places(sockets, payloads) ==
    \E s \in sockets, r \in RoomIds, c \in payloads :
        /\ PlaceBounded(r)
        /\ \E piece \in ActiveDraws(s, r) :
              PlaceItem(s, r, c.piece, c.x, c.y, c.rotation, piece)

Resets(sockets) == \E s \in sockets, r \in RoomIds : Reset(s, r)

Ticks == \E draws \in [ExpiredRooms -> Pieces] : TurnTick(draws)

Clock(steps, maxNow) == \E d \in steps : now + d <= maxNow /\ AdvanceClock(d)

\* turn-taking runs: three connections, time passing, few placements
Next ==
    \/ Connects(SocketIds)
    \/ Disconnects(SocketIds)
    \/ Joins(SocketIds, PlayerNames)
    \/ Requests(SocketIds)
    \/ Places(SocketIds, TurnPayloads)
    \/ Resets(SocketIds)
    \/ Ticks
    \/ Cleanup
    \/ Clock({TURN_DURATION_MS}, MaxNow)

Spec == Init /\ [][Next]_vars

\* board runs: two connections play one game, many placements
BoardSocketIds == {"s1", "s2"}

NextBoard ==
    \/ Connects(BoardSocketIds)
    \/ Joins(BoardSocketIds, {"ann"})
    \/ Places(BoardSocketIds, BoardPayloads)
    \/ Resets(BoardSocketIds)

SpecBoard == Init /\ [][NextBoard]_vars

\* idle runs: the clock also jumps by the idle timeout, so the cleanup evicts rooms
\* whose members are still connected
NextIdle ==
    \/ Connects(BoardSocketIds)
    \/ Joins(BoardSocketIds, {"ann"})
    \/ Places(BoardSocketIds, TurnPayloads)
    \/ Ticks
    \/ Cleanup
    \/ Clock({TURN_DURATION_MS, IDLE_TIMEOUT_MS}, IDLE_TIMEOUT_MS + MaxNow - TURN_DURATION_MS)

SpecIdle == Init /\ [][NextIdle]_vars

\* leave runs: two connections play on the board payloads and may disconnect
NextLeave ==
    \/ Connects(BoardSocketIds)
    \/ Disconnects(BoardSocketIds)
    \/ Joins(BoardSocketIds, {"ann"})
    \/ Places(BoardSocketIds, BoardPayloads)

SpecLeave == Init /\ [][NextLeave]_vars

\* eviction runs: the cleanup evicts a room whose members stay connected, and they
\* go on sending events that name it
NextEvict ==
    \/ Connects(BoardSocketIds)
    \/ Disconnects(BoardSocketIds)
    \/ Joins(BoardSocketIds, {"ann"})
    \/ Requests(BoardSocketIds)
    \/ Places(BoardSocketIds, TurnPayloads)
    \/ Resets(BoardSocketIds)
    \/ Cleanup
    \/ Clock({TURN_DURATION_MS, IDLE_TIMEOUT_MS}, IDLE_TIMEOUT_MS + MaxNow - TURN_DURATION_MS)

SpecEvict == Init /\ [][NextEvict]_vars

\* sweep runs: the eviction runs with the turn timeout tick, so turns can pass by
\* timeout alone until the cleanup finds the room idle
NextSweep ==
    \/ NextEvict
    \/ Ticks

SpecSweep == Init /\ [][NextSweep]_vars

\* two-room runs: two connections move between two rooms of the registry
IsolationRoomIds == {"r1", "r2"}

NextRooms ==
    \/ Connects(BoardSocketIds)
    \/ Disconnects(BoardSocketIds)
    \/ \E s \in BoardSocketIds, r \in IsolationRoomIds :
          /\ JoinBounded(r)
          /\ \E piece \in JoinDraws(r) : JoinRoom(s, "ann", r, piece)
    \/ \E s \in BoardSocketIds, r \in IsolationRoomIds :
          \E piece \in ActiveDraws(s, r) : RequestPiece(s, r, piece)
    \/ \E s \in BoardSocketIds, r \in IsolationRoomIds, c \in TurnPayloads :
          \E piece \in ActiveDraws(s, r) :
              PlaceItem(s, r, c.piece, c.x, c.y, c.rotation, piece)
    \/ \E s \in BoardSocketIds, r \in IsolationRoomIds : Reset(s, r)

SpecRooms == Init /\ [][NextRooms]_vars

\* fair runs: the tick interval keeps firing and the clock keeps advancing up to
\* LiveMaxNow, long enough for every entry of a turnOrder to be skipped
LiveMaxNow == (2 * MaxTurnOrder - 1) * TURN_DURATION_MS

NextLive ==
    \/ Connects(BoardSocketIds)
    \/ Disconnects(BoardSocketIds)
    \/ Joins(BoardSocketIds, {"ann"})
    \/ Places(BoardSocketIds, TurnPayloads)
    \/ Ticks
    \/ Clock({TURN_DURATION_MS}, LiveMaxNow)

SpecLive ==
    /\ Init /\ [][NextLive]_vars
    /\ WF_vars(Ticks)
    /\ WF_vars(Clock({TURN_DURATION_MS}, LiveMaxNow))

------------------------------------------------------------------------------
(* rotateMatrix and canPlace on their own.  The registry stays empty; last holds  *)
(* the call: the arguments drawn, the matrix as passed (input) and as it is after *)
(* the call (matrix), and the results.  As in place-item, canPlace is given the   *)
(* matrix rotateMatrix returned.                                                  *)

\* the matrices a client can send: the seven prototypes and one with a falsy border
CallMatrices ==
    {SHAPES[SHAPE_KEYS[i]] : i \in 1..Len(SHAPE_KEYS)} \cup {<< <<0, 0>>, <<0, 1>> >>}

CallGrids ==
    { EmptyGrid,
      [EmptyGrid EXCEPT ![1][1] = 1, ![10][10] = 2],
      WritePiece(EmptyGrid, SHAPES.O, 3, 4, 4) }

CallTimes == (-MaxTimes)..MaxTimes
CallXs == (-2)..10
CallYs == {-1, 0, 4, 8, 9}

InitCall ==
    /\ gameRooms = [r \in {} |-> NewGameRoom(r, 0)]
    /\ players = [s \in {} |-> [roomId |-> NULL, playerName |-> ""]]
    /\ activeConnections = {}
    /\ closedConnections = {}
    /\ now = 0
    /\ \E g \in CallGrids, m \in CallMatrices, k \in CallTimes, x \in CallXs, y \in CallYs :
          last = [op |-> "call", grid |-> g, input |-> m, matrix |-> m, times |-> k,
                  x |-> x, y |-> y, rotated |-> <<>>, fits |-> FALSE]

\* rotateMatrix(matrix, times): it copies the matrix and writes to new arrays only
RotateCall ==
    /\ last.op = "call"
    /\ last' = [last EXCEPT !.op = "rotateMatrix",
                            !.rotated = rotateMatrix(last.matrix, last.times)]
    /\ UNCHANGED <<gameRooms, players, activeConnections, closedConnections, now>>

\* room.canPlace(rotated, x, y) on a room with the grid drawn
CanPlaceCall ==
    /\ last.op = "rotateMatrix"
    /\ last' = [last EXCEPT !.op = "canPlace",
                            !.fits = canPlace(last.grid, last.rotated, last.x, last.y)]
    /\ UNCHANGED <<gameRooms, players, activeConnections, closedConnections, now>>

NextCall == RotateCall \/ CanPlaceCall

SpecCall == InitCall /\ [][NextCall]_vars

-------------------------------------------------------------------------------
(* The client's copies of rotateMatrix and of canPlace, run on the arguments of   *)
(* a drop: the client validates against its snapshot of the grid with             *)
(* canPlaceClient on its own rotation of the piece, then the server rotates the   *)
(* piece of the payload and runs canPlace.                                        *)

\* one pass of the loop body of the client's rotateMatrix
rotateOnceClient(m) ==
    [x \in 1..Len(m[1]) |-> [k \in 1..Len(m) |-> m[Len(m) - k + 1][x]]]

RECURSIVE rotateLoopClient(_, _, _)
rotateLoopClient(m, t, n) ==
    IF t < n THEN rotateLoopClient(rotateOnceClient(m), t + 1, n) ELSE m

\* the client's rotateMatrix(shape, times)
rotateMatrixClient(shape, times) ==
    rotateLoopClient(shape, 0, JsRem(JsRem(times, 4) + 4, 4))

\* a variant that checks the bounds of the board only
canPlaceClient_BoundsOnly(grid, shape, x, y) ==
    \A ry \in 0..(Len(shape) - 1) : \A rx \in 0..(Len(shape[ry + 1]) - 1) :
        shape[ry + 1][rx + 1] # 0 =>
            ~(x + rx < 0 \/ y + ry < 0 \/ x + rx >= Len(grid[1]) \/ y + ry >= Len(grid))

\* canPlaceClient(grid, shape, x, y): rows and cols are taken from the snapshot
canPlaceClient(grid, shape, x, y) ==
    \A ry \in 0..(Len(shape) - 1) : \A rx \in 0..(Len(shape[ry + 1]) - 1) :
        shape[ry + 1][rx + 1] # 0 =>
            /\ ~(x + rx < 0 \/ y + ry < 0
                 \/ x + rx >= (IF Len(grid) > 0 THEN Len(grid[1]) ELSE 0)
                 \/ y + ry >= Len(grid))
            /\ grid[y + ry + 1][x + rx + 1] = EMPTY

InitClient ==
    /\ gameRooms = [r \in {} |-> NewGameRoom(r, 0)]
    /\ players = [s \in {} |-> [roomId |-> NULL, playerName |-> ""]]
    /\ activeConnections = {}
    /\ closedConnections = {}
    /\ now = 0
    /\ \E g \in CallGrids, m \in CallMatrices, k \in CallTimes, x \in CallXs, y \in CallYs :
          last = [op |-> "call", grid |-> g, input |-> m, times |-> k, x |-> x, y |-> y,
                  mat |-> <<>>, ok |-> FALSE, rotated |-> <<>>, fits |-> FALSE]

\* the client's check before it emits place-item
ClientCall ==
    /\ last.op = "call"
    /\ \E mat \in {rotateMatrixClient(last.input, last.times)} :
          last' = [last EXCEPT !.op = "client", !.mat = mat,
                               !.ok = canPlaceClient(last.grid, mat, last.x, last.y)]
    /\ UNCHANGED <<gameRooms, players, activeConnections, closedConnections, now>>

\* the server's rotation and canPlace on the same payload and grid
ServerCall ==
    /\ last.op = "client"
    /\ \E rotated \in {rotateMatrix(last.input, last.times)} :
          last' = [last EXCEPT !.op = "server", !.rotated = rotated,
                               !.fits = canPlace(last.grid, rotated, last.x, last.y)]
    /\ UNCHANGED <<gameRooms, players, activeConnections, closedConnections, now>>

NextClient == ClientCall \/ ServerCall

SpecClient == InitClient /\ [][NextClient]_vars

------------------------------------------------------------------------------
(* Properties *)

\* the event just handled was a successful place-item on room r
Placed(r) == last.op = "place-item" /\ last.rid = r /\ last.res.ok

\* the event just handled was a place-item on room r answered with a rejection
RejectedWith(r, reason) ==
    last.op = "place-item" /\ last.rid = r /\ last.res.sent /\ last.res.reason = reason

Playing2(room) == room.gameState = "playing" /\ Len(room.players) = 2

\* C1: every successful placePiece in a playing room of two players makes the other
\* roster member the active player
C1_TurnAlternation ==
    [][\A r \in RoomIds :
          (r \in DOMAIN gameRooms /\ Playing2(gameRooms[r]) /\ Placed(r)') =>
              /\ gameRooms'[r].activePlayerId # gameRooms[r].activePlayerId
              /\ gameRooms'[r].activePlayerId \in PlayerIds(gameRooms[r].players)]_vars

\* the witness of C1's case: a successful placement in a playing room of two
C1_Witness ==
    \E r \in DOMAIN gameRooms : Placed(r) /\ Playing2(gameRooms[r])

\* the step is the handling of place-item with payload c from socket s; the piece
\* drawn, if one was, is the one the active player holds afterwards
PlaceStep(s, r, c) ==
    /\ last'.op = "place-item" /\ last'.sid = s /\ last'.rid = r
    /\ InRoom(s, r)
    /\ PlaceItem(s, r, c.piece, c.x, c.y, c.rotation,
                 MapGet(gameRooms'[r].assignedPieceByPlayer, gameRooms'[r].activePlayerId))

Rotated(c) == rotateMatrix(c.piece.shape, c.rotation)

\* the priority order as the claim states it: identity not in roster, identity is not
\* the active player, state is not playing, canPlace fails
ClaimedReason(room, s, c) ==
    IF ~PlayersHas(room.players, s) THEN "not-in-room"
    ELSE IF s # room.activePlayerId THEN "not-your-turn"
    ELSE IF room.gameState # "playing" THEN "game-not-started"
    ELSE IF ~canPlace(room.grid, Rotated(c), c.x, c.y) THEN "invalid-placement"
    ELSE ""

\* the same order, with not-your-turn only where the room has an active player
AmendedReason(room, s, c) ==
    IF ~PlayersHas(room.players, s) THEN "not-in-room"
    ELSE IF room.activePlayerId # NULL /\ s # room.activePlayerId THEN "not-your-turn"
    ELSE IF room.gameState # "playing" THEN "game-not-started"
    ELSE IF ~canPlace(room.grid, Rotated(c), c.x, c.y) THEN "invalid-placement"
    ELSE ""

\* C2 as claimed: placePiece answers with the first applicable reason in the order
\* not-in-room, not-your-turn, game-not-started, invalid-placement, where a roster
\* member placing in a waiting room (no active player) counts as not-your-turn
C2_ClaimedPriority ==
    [][last'.op = "place-item" =>
          \A r \in RoomIds, c \in TurnPayloads :
              PlaceStep(last'.sid, r, c) =>
                  /\ last'.res.sent
                  /\ last'.res.reason = ClaimedReason(gameRooms[r], last'.sid, c)
                  /\ last'.res.ok = (ClaimedReason(gameRooms[r], last'.sid, c) = "")]_vars

\* C2 amended: the same priority order, except that not-your-turn is returned only
\* when the room has an active player other than the requester; a roster member
\* placing in a waiting room is answered game-not-started
C2_Priority ==
    [][last'.op = "place-item" =>
          \A r \in RoomIds, c \in TurnPayloads :
              PlaceStep(last'.sid, r, c) =>
                  /\ last'.res.sent
                  /\ last'.res.reason = AmendedReason(gameRooms[r], last'.sid, c)
                  /\ last'.res.ok = (AmendedReason(gameRooms[r], last'.sid, c) = "")]_vars

\* a roster member placed in a waiting room and was answered game-not-started
C2_Witness ==
    \E r \in DOMAIN gameRooms :
        /\ RejectedWith(r, "game-not-started")
        /\ PlayersHas(gameRooms[r].players, last.sid)
        /\ gameRooms[r].gameState = "waiting"
        /\ gameRooms[r].activePlayerId = NULL

\* a retry by socket s of any payload that fits the grid succeeds
RetrySucceeds(room, s, payloads, t) ==
    \A c \in payloads :
        canPlace(room.grid, Rotated(c), c.x, c.y) =>
            \A piece \in Pieces :
                placePiece(room, s, Rotated(c), c.piece.color, c.x, c.y, piece, t).res.ok

\* C3: a rejected placePiece leaves every room and the players map unchanged (board,
\* scores, roster, turn order and index, active player, deadline, assigned pieces,
\* lastActivity); after invalid-placement the requester is still active, holds the
\* same assigned piece, and a retry at a coordinate that fits succeeds
C3_RejectedUnchanged ==
    [][(last'.op = "place-item" /\ last'.res.sent /\ ~last'.res.ok) =>
          /\ gameRooms' = gameRooms
          /\ players' = players
          /\ last'.res.reason = "invalid-placement" =>
                /\ gameRooms'[last'.rid].activePlayerId = last'.sid
                /\ MapGet(gameRooms'[last'.rid].assignedPieceByPlayer, last'.sid) # NoPiece
                /\ RetrySucceeds(gameRooms'[last'.rid], last'.sid, TurnPayloads, now')]_vars

\* an invalid-placement was answered while a payload that fits is there to retry
C3_Witness ==
    \E r \in DOMAIN gameRooms :
        /\ RejectedWith(r, "invalid-placement")
        /\ gameRooms[r].lastActivity < now
        /\ \E c \in TurnPayloads : canPlace(gameRooms[r].grid, Rotated(c), c.x, c.y)

\* the rows that are complete once the payload's cells are added to the grid
RowsCompleted(grid, c) ==
    {row \in 0..(GRID_ROWS - 1) :
        \A col \in 0..(GRID_COLS - 1) :
            \/ Cell(grid, col, row) # EMPTY
            \/ <<col - c.x, row - c.y>> \in Occupied(Rotated(c))}

Score(room, s) ==
    IF PlayersHas(room.players, s)
    THEN (CHOOSE p \in {room.players[i] : i \in 1..Len(room.players)} : p.id = s).score
    ELSE -1

\* C4: a successful placePiece by p that completes k rows adds exactly 100 * k to p's
\* score, leaves every other player's score unchanged and returns rowsCleared = k
C4_ScorePerRow ==
    [][(last'.op = "place-item" /\ last'.res.ok) =>
          \A r \in RoomIds, c \in BoardPayloads :
              PlaceStep(last'.sid, r, c) =>
                  /\ last'.res.rowsCleared = Cardinality(RowsCompleted(gameRooms[r].grid, c))
                  /\ Score(gameRooms'[r], last'.sid)
                       = Score(gameRooms[r], last'.sid) + 100 * last'.res.rowsCleared
                  /\ \A q \in SocketIds \ {last'.sid} :
                        Score(gameRooms'[r], q) = Score(gameRooms[r], q)
                  /\ PlayerIds(gameRooms'[r].players) = PlayerIds(gameRooms[r].players)]_vars

\* one placement completed two rows and its placer, who had 0, has 200
C4_Witness ==
    \E r \in DOMAIN gameRooms :
        /\ Placed(r)
        /\ last.res.rowsCleared = 2
        /\ Score(gameRooms[r], last.sid) = 200

\* the grid with the cells of `covered` (offsets from x, y) written in `color`, and
\* then the rows of `completed` emptied and every other cell left where it is
ClearedInPlace(grid, covered, completed, color, x, y) ==
    [i \in 1..10 |->
        [j \in 1..10 |->
            IF (i - 1) \in completed
            THEN EMPTY
            ELSE IF <<j - 1 - x, i - 1 - y>> \in covered THEN color ELSE grid[i][j]]]

\* C5: after a successful placement every row that was complete once the piece was
\* written is empty, every cell of every other row holds what it held before or the
\* piece's colour where the piece covers it, and the board is still 10 x 10
C5_ClearInPlace ==
    [][(last'.op = "place-item" /\ last'.res.ok) =>
          \A r \in RoomIds, c \in BoardPayloads :
              PlaceStep(last'.sid, r, c) =>
                  gameRooms'[r].grid =
                      ClearedInPlace(gameRooms[r].grid, Occupied(Rotated(c)),
                                     RowsCompleted(gameRooms[r].grid, c),
                                     c.piece.color, c.x, c.y)]_vars

\* row 1 was completed and cleared while the row above it keeps its two cells
C5_Witness ==
    \E r \in DOMAIN gameRooms :
        /\ Placed(r)
        /\ last.res.rowsCleared = 1
        /\ \A col \in 0..9 : Cell(gameRooms[r].grid, col, 1) = EMPTY
        /\ Cell(gameRooms[r].grid, 8, 0) # EMPTY
        /\ Cell(gameRooms[r].grid, 9, 0) # EMPTY

Scores(room) == [i \in 1..Len(room.players) |-> room.players[i].score]

\* C6: a tick handled in a playing room of two at a time at or after the deadline
\* makes the other player active, discards the skipped player's piece, assigns a
\* piece to the new active player and sets the deadline to now + 30000 ms; scores
\* and board are unchanged
C6_ForcedSkip ==
    [][last'.op = "tick" =>
          \A r \in DOMAIN gameRooms :
              (Playing2(gameRooms[r]) /\ now >= gameRooms[r].turnEndsAt) =>
                  /\ gameRooms'[r].activePlayerId # gameRooms[r].activePlayerId
                  /\ gameRooms'[r].activePlayerId \in PlayerIds(gameRooms[r].players)
                  /\ MapGet(gameRooms'[r].assignedPieceByPlayer,
                            gameRooms[r].activePlayerId) = NoPiece
                  /\ MapGet(gameRooms'[r].assignedPieceByPlayer,
                            gameRooms'[r].activePlayerId) # NoPiece
                  /\ gameRooms'[r].turnEndsAt = now + 30000
                  /\ Scores(gameRooms'[r]) = Scores(gameRooms[r])
                  /\ gameRooms'[r].grid = gameRooms[r].grid]_vars

\* C6 for ticks handled strictly after the deadline
C6_ForcedSkipAfter ==
    [][last'.op = "tick" =>
          \A r \in DOMAIN gameRooms :
              (Playing2(gameRooms[r]) /\ now > gameRooms[r].turnEndsAt) =>
                  /\ gameRooms'[r].activePlayerId # gameRooms[r].activePlayerId
                  /\ gameRooms'[r].activePlayerId \in PlayerIds(gameRooms[r].players)]_vars

\* C7: once the tick has skipped a turn, a placement by the player whose turn it was
\* is rejected with not-your-turn and leaves the room as it is
C7_TickFirst ==
    [][last'.op = "tick" =>
          \A r \in DOMAIN gameRooms :
              Expired(gameRooms[r], now) =>
                  \A c \in TurnPayloads, piece \in Pieces :
                      placePiece(gameRooms'[r], gameRooms[r].activePlayerId, Rotated(c),
                                 c.piece.color, c.x, c.y, piece, now')
                          = [res |-> Rejected("not-your-turn"), room |-> gameRooms'[r]]]_vars

\* the deadline of room's turn had passed when the successful place-item was handled
PlacedLate(r) == Placed(r) /\ last.late

\* C8: a placement by the active player that fits the board is honoured whether or
\* not the deadline has passed, and sets the deadline to now + 30000 ms, so that a
\* tick skips the new turn only at a time later than that
C8_PlacementFirst ==
    [][last'.op = "place-item" =>
          \A r \in RoomIds, c \in TurnPayloads :
              (/\ PlaceStep(last'.sid, r, c)
               /\ gameRooms[r].gameState = "playing"
               /\ gameRooms[r].activePlayerId = last'.sid
               /\ canPlace(gameRooms[r].grid, Rotated(c), c.x, c.y)) =>
                  /\ last'.res.ok
                  /\ gameRooms'[r].turnEndsAt = now + 30000
                  /\ \A k \in 0..(MaxClockSteps + 2) :
                        Expired(gameRooms'[r], k * TURN_DURATION_MS)
                            <=> k * TURN_DURATION_MS > now + 30000]_vars

\* a placement was honoured after its deadline and the new deadline is 30 s away
C8_Witness ==
    \E r \in DOMAIN gameRooms :
        /\ PlacedLate(r)
        /\ gameRooms[r].turnEndsAt = now + 30000
        /\ ~Expired(gameRooms[r], now)

\* C9: a room has a turn deadline exactly when it has an active player and is
\* playing; a waiting room has neither an active player nor a deadline
C9_TurnState ==
    \A r \in DOMAIN gameRooms :
        /\ (gameRooms[r].turnEndsAt # 0) <=>
               (gameRooms[r].activePlayerId # NULL /\ gameRooms[r].gameState = "playing")
        /\ gameRooms[r].gameState = "waiting" =>
               (gameRooms[r].activePlayerId = NULL /\ gameRooms[r].turnEndsAt = 0)

\* a player left a playing room: it is waiting again, with one player and no deadline
C9_Witness ==
    \E r \in DOMAIN gameRooms :
        /\ last.op = "disconnect"
        /\ Len(gameRooms[r].players) = 1
        /\ gameRooms[r].gameState = "waiting"
        /\ gameRooms[r].turnEndsAt = 0
        /\ gameRooms[r].turnIndex = 1

\* the roster in join order
JoinOrder(room) == [i \in 1..Len(room.players) |-> room.players[i].id]

\* C10: a join that brings a waiting room to two players makes it playing, with the
\* turn order the join order of the two players, the first of them active and
\* holding a fresh piece, and the deadline at now + 30000 ms
C10_SchedulerStart ==
    [][(last'.op = "join-room" /\ last'.res.ok) =>
          \A r \in DOMAIN gameRooms :
              (/\ last'.rid = r
               /\ gameRooms[r].gameState = "waiting"
               /\ Len(gameRooms'[r].players) = 2) =>
                  /\ gameRooms'[r].gameState = "playing"
                  /\ gameRooms'[r].turnOrder = JoinOrder(gameRooms'[r])
                  /\ gameRooms'[r].activePlayerId = JoinOrder(gameRooms'[r])[1]
                  /\ MapGet(gameRooms'[r].assignedPieceByPlayer,
                            gameRooms'[r].activePlayerId) \in Pieces
                  /\ gameRooms'[r].turnEndsAt = now + 30000]_vars

\* C10 where the turn order holds each of the two players once
C10_StartAfterLeave ==
    [][(last'.op = "join-room" /\ last'.res.ok) =>
          \A r \in DOMAIN gameRooms :
              (/\ last'.rid = r
               /\ gameRooms[r].gameState = "waiting"
               /\ Len(gameRooms'[r].players) = 2
               /\ gameRooms'[r].turnOrder = JoinOrder(gameRooms'[r])) =>
                  gameRooms'[r].activePlayerId = JoinOrder(gameRooms'[r])[1]]_vars

\* C11: while a room is playing its turn order is the two roster members, each once,
\* in join order
C11_TurnOrder ==
    \A r \in DOMAIN gameRooms :
        gameRooms[r].gameState = "playing" =>
            /\ Len(gameRooms[r].turnOrder) = 2
            /\ gameRooms[r].turnOrder[1] # gameRooms[r].turnOrder[2]
            /\ gameRooms[r].turnOrder = JoinOrder(gameRooms[r])

\* the step is the handling of join-room with a player name n from socket s
JoinStep(s, r, n) ==
    /\ last'.op = "join-room" /\ last'.sid = s /\ last'.rid = r
    /\ \E piece \in Pieces \cup {NoPiece} : JoinRoom(s, n, r, piece)

RoomFull(r) == r \in DOMAIN gameRooms /\ Len(gameRooms[r].players) = 2

\* C12: no roster ever holds more than two players; a join to a room of two is
\* answered room-full and changes no room and no players entry; an accepted join
\* puts the joiner in the roster with score 0
C12_RoomFull ==
    [][/\ \A r \in DOMAIN gameRooms' : Len(gameRooms'[r].players) <= 2
       /\ last'.op = "join-room" =>
             \A r \in RoomIds, n \in PlayerNames \ {""} :
                 JoinStep(last'.sid, r, n) =>
                     IF RoomFull(r)
                     THEN /\ ~last'.res.ok
                          /\ last'.emits = << [ev |-> "room-full", to |-> last'.sid,
                                               piece |-> NoPiece] >>
                          /\ gameRooms' = gameRooms
                          /\ players' = players
                     ELSE /\ last'.res.ok
                          /\ Score(gameRooms'[r], last'.sid) = 0
                          /\ PlayerIds(gameRooms'[r].players) =
                                (IF r \in DOMAIN gameRooms
                                 THEN PlayerIds(gameRooms[r].players) ELSE {})
                                \cup {last'.sid}]_vars

\* a third connection was answered room-full by a playing room
C12_Witness ==
    \E r \in DOMAIN gameRooms :
        /\ last.op = "join-room" /\ last.rid = r /\ ~last.res.ok
        /\ Len(last.emits) = 1 /\ last.emits[1].ev = "room-full"
        /\ ~PlayersHas(gameRooms[r].players, last.sid)
        /\ gameRooms[r].gameState = "playing"

\* C13: when one of the two players of a playing room leaves, the room is waiting
\* with no active player and no deadline, the player who remains keeps its entry and
\* score, and no board cell changes; a waiting room leaves the waiting state only in
\* a join-room of a socket that is not in its roster
C13_LeaveMidGame ==
    [][\A r \in DOMAIN gameRooms :
          /\ (/\ last'.op = "disconnect" /\ last'.rid = r
              /\ Playing2(gameRooms[r])
              /\ PlayersHas(gameRooms[r].players, last'.sid)) =>
                 /\ r \in DOMAIN gameRooms'
                 /\ gameRooms'[r].gameState = "waiting"
                 /\ gameRooms'[r].activePlayerId = NULL
                 /\ gameRooms'[r].turnEndsAt = 0
                 /\ gameRooms'[r].players = PlayersDelete(gameRooms[r].players, last'.sid)
                 /\ Len(gameRooms'[r].players) = 1
                 /\ gameRooms'[r].grid = gameRooms[r].grid
          /\ (/\ gameRooms[r].gameState = "waiting"
              /\ r \in DOMAIN gameRooms'
              /\ gameRooms'[r].gameState # "waiting") =>
                 /\ last'.op = "join-room"
                 /\ ~PlayersHas(gameRooms[r].players, last'.sid)]_vars

\* a player left a game in which the other player had scored: the room is waiting,
\* the score and the pieces on the board are still there
C13_Witness ==
    \E r \in DOMAIN gameRooms :
        /\ last.op = "disconnect" /\ last.rid = r
        /\ gameRooms[r].gameState = "waiting"
        /\ Len(gameRooms[r].players) = 1
        /\ gameRooms[r].players[1].score > 0
        /\ gameRooms[r].grid # EmptyGrid

\* C14: reset empties every cell of the board and sets every score to 0; lifecycle
\* state, roster, turn order, turn index, active player, deadline and assigned
\* pieces are what they were, in a waiting room and in a playing room, whichever
\* member sends it
C14_ResetFrame ==
    [][(last'.op = "reset" /\ last'.res.ok) =>
          \A r \in DOMAIN gameRooms :
              last'.rid = r =>
                  /\ r \in DOMAIN gameRooms'
                  /\ \A row \in 0..9, col \in 0..9 : Cell(gameRooms'[r].grid, col, row) = EMPTY
                  /\ \A i \in 1..Len(gameRooms'[r].players) : gameRooms'[r].players[i].score = 0
                  /\ JoinOrder(gameRooms'[r]) = JoinOrder(gameRooms[r])
                  /\ gameRooms'[r].gameState = gameRooms[r].gameState
                  /\ gameRooms'[r].turnOrder = gameRooms[r].turnOrder
                  /\ gameRooms'[r].turnIndex = gameRooms[r].turnIndex
                  /\ gameRooms'[r].activePlayerId = gameRooms[r].activePlayerId
                  /\ gameRooms'[r].turnEndsAt = gameRooms[r].turnEndsAt
                  /\ gameRooms'[r].assignedPieceByPlayer = gameRooms[r].assignedPieceByPlayer]_vars

\* the player whose turn it is not reset a game in which placements had been made
C14_Witness ==
    \E r \in DOMAIN gameRooms :
        /\ last.op = "reset" /\ last.rid = r /\ last.res.ok
        /\ gameRooms[r].gameState = "playing"
        /\ gameRooms[r].turnIndex = 1
        /\ gameRooms[r].activePlayerId # last.sid
        /\ gameRooms[r].grid = EmptyGrid

\* C15: the cleanup removes exactly the rooms whose roster is empty or whose
\* lastActivity lies more than 5 minutes back, playing rooms of two included, and
\* every room it keeps is as it was
C15_IdleSweep ==
    [][last'.op = "cleanup" =>
          /\ DOMAIN gameRooms' =
                {r \in DOMAIN gameRooms :
                    ~(Len(gameRooms[r].players) = 0
                      \/ now - gameRooms[r].lastActivity > 5 * 60 * 1000)}
          /\ \A r \in DOMAIN gameRooms' : gameRooms'[r] = gameRooms[r]]_vars

\* the cleanup has just removed a room both of whose players are still connected:
\* no room of these runs lives long enough to be removed twice, so both had joined
\* the room that was removed, and it was playing
C15_Witness ==
    /\ last.op = "cleanup"
    /\ last.rid \in RoomIds
    /\ last.rid \notin DOMAIN gameRooms
    /\ \A s \in BoardSocketIds :
          /\ s \in activeConnections
          /\ s \in DOMAIN players
          /\ players[s].roomId = last.rid

\* C16: the disconnect of the only player of a room removes the room from the
\* registry in that step; a join-room that finds no room under its identifier gets a
\* new one: empty board, the joiner its only player, waiting, no active player, no
\* deadline, turn order and index at their start
C16_EmptyRoomRemoved ==
    [][\A r \in RoomIds :
          /\ (/\ last'.op = "disconnect" /\ last'.rid = r
              /\ r \in DOMAIN gameRooms
              /\ PlayerIds(gameRooms[r].players) = {last'.sid}) =>
                 r \notin DOMAIN gameRooms'
          /\ (/\ last'.op = "join-room" /\ last'.rid = r /\ last'.res.ok
              /\ r \notin DOMAIN gameRooms) =>
                 /\ r \in DOMAIN gameRooms'
                 /\ gameRooms'[r].grid = EmptyGrid
                 /\ JoinOrder(gameRooms'[r]) = <<last'.sid>>
                 /\ Score(gameRooms'[r], last'.sid) = 0
                 /\ gameRooms'[r].gameState = "waiting"
                 /\ gameRooms'[r].activePlayerId = NULL
                 /\ gameRooms'[r].turnEndsAt = 0
                 /\ gameRooms'[r].turnOrder = <<last'.sid>>
                 /\ gameRooms'[r].turnIndex = 0
                 /\ DOMAIN gameRooms'[r].assignedPieceByPlayer = {last'.sid}
                 /\ gameRooms'[r].lastActivity = now]_vars

\* both players have left, the second leave took the room out of the registry, and
\* a third connection is there to join under the same identifier
C16_Witness ==
    /\ last.op = "disconnect"
    /\ last.rid \in RoomIds
    /\ last.rid \notin DOMAIN gameRooms
    /\ Cardinality(closedConnections) = 2
    /\ activeConnections # {}

\* C17: the tick changes only the rooms that are playing and whose deadline has
\* passed, and sets their deadline anew; a waiting room and a playing room whose
\* deadline has not passed are the same after the tick
C17_TickFrame ==
    [][last'.op = "tick" =>
          /\ DOMAIN gameRooms' = DOMAIN gameRooms
          /\ \A r \in DOMAIN gameRooms :
                IF gameRooms[r].gameState = "playing" /\ now > gameRooms[r].turnEndsAt
                THEN /\ gameRooms'[r] # gameRooms[r]
                     /\ gameRooms'[r].turnEndsAt = now + 30000
                ELSE gameRooms'[r] = gameRooms[r]]_vars

\* a tick ran at the very deadline of a playing room and skipped nothing
C17_Witness ==
    \E r \in DOMAIN gameRooms :
        /\ last.op = "tick" /\ last.rid = NULL
        /\ gameRooms[r].gameState = "playing"
        /\ gameRooms[r].turnEndsAt = now

\* the board cells <<gx, gy>> the payload's rotated shape covers
CellsOf(c) == {<<c.x + o[1], c.y + o[2]>> : o \in Occupied(Rotated(c))}

\* the cells of each board payload
BoardCells == [c \in BoardPayloads |-> CellsOf(c)]

InBounds(cells) == \A g \in cells : g[1] \in 0..9 /\ g[2] \in 0..9

\* the answer to the active player of room placing payload b
NextPlacement(room, b, t) ==
    placePiece(room, room.activePlayerId, Rotated(b), b.piece.color, b.x, b.y,
               CHOOSE piece \in Pieces : TRUE, t).res

\* with `taken` the cells of A that count, cellsB the cells of B and res the answer
\* to B: B on a taken cell is rejected as invalid-placement, B in bounds on empty
\* cells succeeds
CollisionAnswer(grid, taken, cellsB, res) ==
    /\ cellsB \cap taken # {} => res = Rejected("invalid-placement")
    /\ (InBounds(cellsB) /\ \A g \in cellsB : Cell(grid, g[1], g[2]) = EMPTY) => res.ok

\* C19 as claimed: after the successful placement of A, a placement of B that covers
\* any cell A covered is rejected as invalid-placement, and a placement of B in
\* bounds on empty cells succeeds
C19_ClaimedCollision ==
    [][(last'.op = "place-item" /\ last'.res.ok) =>
          \A r \in RoomIds, a \in BoardPayloads :
              PlaceStep(last'.sid, r, a) =>
                  \A b \in BoardPayloads :
                      CollisionAnswer(gameRooms'[r].grid, BoardCells[a], BoardCells[b],
                                      NextPlacement(gameRooms'[r], b, now'))]_vars

\* the cells of payload a outside the rows its placement on grid completes
CellsKept(grid, a, completed) == {g \in BoardCells[a] : g[2] \notin completed}

\* C19 amended: after the successful placement of A, a placement of B that covers a
\* cell A covered outside the rows A's placement completed (those rows are empty
\* again) is rejected as invalid-placement, and a placement of B in bounds on empty
\* cells succeeds
C19_Collision ==
    [][(last'.op = "place-item" /\ last'.res.ok) =>
          \A r \in RoomIds, a \in BoardPayloads :
              PlaceStep(last'.sid, r, a) =>
                  \E taken \in {CellsKept(gameRooms[r].grid, a,
                                          RowsCompleted(gameRooms[r].grid, a))} :
                      \A b \in BoardPayloads :
                          CollisionAnswer(gameRooms'[r].grid, taken, BoardCells[b],
                                          NextPlacement(gameRooms'[r], b, now'))]_vars

\* a placement has completed a row and left cells in another: some payload in
\* bounds now collides and some payload now fits
C19_Witness ==
    \E r \in DOMAIN gameRooms :
        /\ Placed(r)
        /\ last.res.rowsCleared = 1
        /\ \E b \in BoardPayloads :
              /\ InBounds(CellsOf(b))
              /\ NextPlacement(gameRooms[r], b, now) = Rejected("invalid-placement")
        /\ \E b \in BoardPayloads : NextPlacement(gameRooms[r], b, now).ok

\* the matrix cell at offset (dx, dy) is truthy
Truthy(shape, dx, dy) ==
    dy < Len(shape) /\ dx < Len(shape[dy + 1]) /\ shape[dy + 1][dx + 1] # 0

\* C18: canPlace(shape, x, y) is true exactly when every truthy offset (dx, dy) of
\* the shape lands on a cell (x + dx, y + dy) inside [0,10) x [0,10) that is empty;
\* falsy offsets may lie outside the board or on occupied cells, and negative x or y
\* follow the same rule
C18_CanPlace ==
    last.op = "canPlace" =>
        (last.fits <=>
            \A dx \in 0..3, dy \in 0..3 :
                Truthy(last.rotated, dx, dy) =>
                    /\ last.x + dx >= 0 /\ last.x + dx < 10
                    /\ last.y + dy >= 0 /\ last.y + dy < 10
                    /\ last.grid[last.y + dy + 1][last.x + dx + 1] = EMPTY)

\* canPlace was true at a negative x: the matrix column left of the board is falsy
C18_Witness ==
    /\ last.op = "canPlace"
    /\ last.fits
    /\ last.x < 0

\* the number of truthy cells of a matrix
Ones(m) == Cardinality({<<i, j>> \in (1..4) \X (1..4) : Truthy(m, j - 1, i - 1)})

\* C20: rotateMatrix(shape, k) is rotateMatrix(shape, k mod 4) with the remainder in
\* 0..3, also for negative k; four turns give the shape back; rows and columns are
\* swapped when k is odd and kept when k is even; the number of occupied cells and
\* the matrix passed in are unchanged
C20_Rotation ==
    last.op = "rotateMatrix" =>
        /\ last.rotated = rotateMatrix(last.input, last.times % 4)
        /\ last.times = 4 => last.rotated = last.input
        /\ last.times % 2 = 1 =>
              /\ Len(last.rotated) = Len(last.input[1])
              /\ Len(last.rotated[1]) = Len(last.input)
        /\ last.times % 2 = 0 =>
              /\ Len(last.rotated) = Len(last.input)
              /\ Len(last.rotated[1]) = Len(last.input[1])
        /\ Ones(last.rotated) = Ones(last.input)
        /\ last.matrix = last.input

\* the L prototype was turned -3 times, that is once: 3 x 2 became 2 x 3
C20_Witness ==
    /\ last.op = "rotateMatrix"
    /\ last.input = SHAPES.L
    /\ last.times = -3
    /\ last.rotated = << <<1, 1, 1>>, <<1, 0, 0>> >>

\* C21: a player's score is never negative, and from one event to the next it
\* changes only by that player's own successful placement, by 100 per row cleared,
\* or by a reset, to 0
C21_ScoreChanges ==
    [][\A r \in DOMAIN gameRooms \cap DOMAIN gameRooms' :
          \A s \in PlayerIds(gameRooms'[r].players) :
              /\ Score(gameRooms'[r], s) >= 0
              /\ (/\ PlayersHas(gameRooms[r].players, s)
                  /\ Score(gameRooms'[r], s) # Score(gameRooms[r], s)) =>
                     \/ /\ last'.op = "place-item" /\ last'.sid = s /\ last'.res.ok
                        /\ Score(gameRooms'[r], s) =
                              Score(gameRooms[r], s) + 100 * last'.res.rowsCleared
                     \/ /\ last'.op = "reset"
                        /\ Score(gameRooms'[r], s) = 0]_vars

\* C22: a request-piece from the active player of a playing room delivers exactly
\* that player's assigned piece, drawing and assigning one only when none is
\* assigned and changing nothing else; any other request-piece delivers nothing
\* and changes nothing
C22_RequestPiece ==
    [][\A s \in SocketIds : \A r \in RoomIds :
          (last'.op = "request-piece" /\ last'.sid = s /\ last'.rid = r) =>
             /\ players' = players
             /\ IF /\ r \in DOMAIN gameRooms
                   /\ gameRooms[r].gameState = "playing"
                   /\ gameRooms[r].activePlayerId = s
                THEN \E held \in {MapGet(gameRooms[r].assignedPieceByPlayer, s)} :
                     /\ r \in DOMAIN gameRooms'
                     /\ MapGet(gameRooms'[r].assignedPieceByPlayer, s) # NoPiece
                     /\ last'.emits =
                           << [ev |-> "piece", to |-> s,
                               piece |-> MapGet(gameRooms'[r].assignedPieceByPlayer, s)] >>
                     /\ held # NoPiece => gameRooms' = gameRooms
                     /\ held = NoPiece =>
                           gameRooms' =
                              [gameRooms EXCEPT ![r] =
                                  [@ EXCEPT !.pieceQueue = gameRooms'[r].pieceQueue,
                                            !.assignedPieceByPlayer =
                                               gameRooms'[r].assignedPieceByPlayer]]
                ELSE /\ last'.emits = <<>>
                     /\ gameRooms' = gameRooms]_vars

C22_Witness ==
    /\ last.op = "request-piece"
    /\ last.rid \in DOMAIN gameRooms
    /\ gameRooms[last.rid].gameState = "playing"
    /\ gameRooms[last.rid].activePlayerId = last.sid
    /\ last.emits =
          << [ev |-> "piece", to |-> last.sid,
              piece |-> MapGet(gameRooms[last.rid].assignedPieceByPlayer, last.sid)] >>

\* C23: a place-item, request-piece or reset that names a room the registry does
\* not hold, and the disconnect of a connection whose room the registry does not
\* hold, emits nothing, creates no room and changes no room
C23_UnknownRoom ==
    [][/\ (/\ last'.op \in {"place-item", "request-piece", "reset"}
           /\ last'.rid \notin DOMAIN gameRooms) =>
              /\ gameRooms' = gameRooms
              /\ players' = players
              /\ last'.emits = <<>>
       /\ (/\ last'.op = "disconnect"
           /\ last'.sid \in DOMAIN players
           /\ players[last'.sid].roomId \notin DOMAIN gameRooms) =>
              /\ gameRooms' = gameRooms
              /\ last'.emits = <<>>]_vars

\* a connection sends a reset for the room it joined after the cleanup evicted it
C23_Witness ==
    /\ last.op = "reset"
    /\ last.sid \in DOMAIN players
    /\ players[last.sid].roomId = last.rid
    /\ last.rid \notin DOMAIN gameRooms
    /\ last.emits = <<>>

\* C24: a join-room, disconnect, place-item, request-piece or reset addressed to
\* one room leaves every other room of the registry in the registry and unchanged
\* in every field (board, roster, scores, turn order, active player, deadline,
\* assigned pieces)
C24_RoomIsolation ==
    [][last'.op \in {"join-room", "disconnect", "place-item", "request-piece", "reset"} =>
          \A r \in DOMAIN gameRooms \ {last'.rid} :
              /\ r \in DOMAIN gameRooms'
              /\ gameRooms'[r] = gameRooms[r]]_vars

\* a piece is placed in r2 while r1 is playing on a board that holds cells
C24_Witness ==
    /\ Placed("r2")
    /\ "r1" \in DOMAIN gameRooms
    /\ gameRooms["r1"].gameState = "playing"
    /\ gameRooms["r1"].grid # EmptyGrid

\* the events emitted by the event just handled
Emitted == {last.emits[i] : i \in 1..Len(last.emits)}

\* the turn of room r starts in this step
TurnStarts(r) ==
    /\ r \in DOMAIN gameRooms'
    /\ gameRooms'[r].activePlayerId # NULL
    /\ \/ r \notin DOMAIN gameRooms
       \/ gameRooms[r].activePlayerId # gameRooms'[r].activePlayerId
       \/ gameRooms[r].turnIndex # gameRooms'[r].turnIndex
       \/ gameRooms[r].turnEndsAt # gameRooms'[r].turnEndsAt

\* C25: an accepted join, a disconnect that leaves a member behind, a successful
\* placement, a reset, a forced skip, and any event after which a room's snapshot
\* differs, emits game-state to that room in the same event; every event in which
\* a turn starts emits the active player's newly assigned piece to that player
C25_Emits ==
    [][\A r \in RoomIds :
          /\ (/\ r \in DOMAIN gameRooms'
              /\ \/ r \notin DOMAIN gameRooms
                 \/ state(gameRooms'[r]) # state(gameRooms[r])
                 \/ last'.rid = r /\ last'.op \in {"join-room", "reset", "place-item"}
                                  /\ last'.res.ok
                 \/ last'.rid = r /\ last'.op \in {"disconnect", "tick"}) =>
                [ev |-> "game-state", to |-> r, piece |-> NoPiece] \in Emitted'
          /\ TurnStarts(r) =>
                /\ MapGet(gameRooms'[r].assignedPieceByPlayer,
                          gameRooms'[r].activePlayerId) # NoPiece
                /\ [ev |-> "piece", to |-> gameRooms'[r].activePlayerId,
                    piece |-> MapGet(gameRooms'[r].assignedPieceByPlayer,
                                     gameRooms'[r].activePlayerId)] \in Emitted']_vars

\* a forced skip has emitted the snapshot and the next player's piece
C25_Witness ==
    /\ last.op = "tick"
    /\ last.rid \in DOMAIN gameRooms
    /\ last.emits = StateEmit(last.rid) \o PieceEmit(gameRooms[last.rid])
    /\ Len(last.emits) = 2

\* C26: every place-item sent by a connection for the room it has joined is
\* answered with exactly one placement-result to that connection
C26_PlacementAnswered ==
    [][(/\ last'.op = "place-item"
        /\ last'.sid \in DOMAIN players
        /\ players[last'.sid].roomId = last'.rid) =>
           /\ last'.res.sent
           /\ Cardinality({i \in 1..Len(last'.emits) :
                              /\ last'.emits[i].ev = "placement-result"
                              /\ last'.emits[i].to = last'.sid}) = 1]_vars

\* p is the active player of the playing room r
ActiveIn(p, r) ==
    /\ r \in DOMAIN gameRooms
    /\ gameRooms[r].gameState = "playing"
    /\ gameRooms[r].activePlayerId = p

\* room r is playing the turn of turnOrder entry i that ends at d
TurnIn(r, i, d) ==
    /\ r \in DOMAIN gameRooms
    /\ gameRooms[r].gameState = "playing"
    /\ gameRooms[r].turnIndex = i
    /\ gameRooms[r].turnEndsAt = d

\* the turnOrder entry that follows the current one
NextEntry(room) == room.turnOrder[((room.turnIndex + 1) % Len(room.turnOrder)) + 1]

\* the deadlines the clock can still pass
LiveDeadlines == {d \in 0..(LiveMaxNow - 1) : d % TURN_DURATION_MS = 0}

RowsOf(cells) == {g[2] : g \in cells}

\* the number of rows each prototype occupies under each rotation
ShapeRowCounts ==
    {Cardinality(RowsOf(Occupied(rotateMatrix(SHAPES[SHAPE_KEYS[k]], times)))) :
        k \in 1..Len(SHAPE_KEYS), times \in 0..3}

\* C28: the rowsCleared of a successful placement is at most the number of board
\* rows in which the placed shape has an occupied cell, which is at most 4 for
\* every prototype and rotation, and every row the piece wrote no cell in is after
\* the placement as it was before
C28_RowsCleared ==
    [][(last'.op = "place-item" /\ last'.res.ok) =>
          /\ \A n \in ShapeRowCounts : n <= 4
          /\ \A r \in RoomIds, c \in BoardPayloads :
                PlaceStep(last'.sid, r, c) =>
                    /\ last'.res.rowsCleared <= Cardinality(RowsOf(BoardCells[c]))
                    /\ \A row \in (0..(GRID_ROWS - 1)) \ RowsOf(BoardCells[c]) :
                          gameRooms'[r].grid[row + 1] = gameRooms[r].grid[row + 1]]_vars

\* a placement cleared row 1 and the rows above and below it still hold cells
C28_Witness ==
    \E r \in DOMAIN gameRooms :
        /\ Placed(r)
        /\ last.res.rowsCleared = 1
        /\ \A col \in 0..9 : Cell(gameRooms[r].grid, col, 1) = EMPTY
        /\ Cell(gameRooms[r].grid, 8, 0) # EMPTY
        /\ Cell(gameRooms[r].grid, 8, 2) # EMPTY

\* C29: in every reachable state a room is playing if and only if its roster
\* holds exactly two players, and is waiting otherwise
C29_PlayingIffTwo ==
    \A r \in DOMAIN gameRooms :
        /\ gameRooms[r].gameState \in {"waiting", "playing"}
        /\ gameRooms[r].gameState = "playing" <=> Len(gameRooms[r].players) = 2
        /\ Len(gameRooms[r].players) <= 1 => gameRooms[r].gameState = "waiting"

\* a room is back to waiting with the one member a disconnect left behind, and a
\* board that was played on
C29_Witness ==
    \E r \in DOMAIN gameRooms :
        /\ last.op = "disconnect" /\ last.rid = r
        /\ Len(gameRooms[r].players) = 1
        /\ gameRooms[r].gameState = "waiting"
        /\ gameRooms[r].grid # EmptyGrid

\* C30: in every reachable state no row of any room's board is completely occupied
C30_NoFullRow ==
    \A r \in DOMAIN gameRooms : FullRows(gameRooms[r].grid) = {}

\* a placement has just completed and cleared two rows at once, and other cells
\* are still on the board
C30_Witness ==
    \E r \in DOMAIN gameRooms :
        /\ Placed(r)
        /\ last.res.rowsCleared = 2
        /\ gameRooms[r].grid # EmptyGrid
        /\ FullRows(gameRooms[r].grid) = {}

\* C31: in every reachable state the active player of a room, when set, is a
\* member of the room's roster
C31_ActiveInRoster ==
    \A r \in DOMAIN gameRooms :
        gameRooms[r].activePlayerId # NULL =>
            PlayersHas(gameRooms[r].players, gameRooms[r].activePlayerId)

\* C32: in every reachable state a roster member who is not the active player
\* holds no assigned piece
C32_OnlyActiveHoldsPiece ==
    \A r \in DOMAIN gameRooms :
        \A s \in PlayerIds(gameRooms[r].players) :
            MapGet(gameRooms[r].assignedPieceByPlayer, s) # NoPiece =>
                gameRooms[r].activePlayerId = s

\* C33: in every reachable state a playing room has an active player who holds a
\* non-null assigned piece, and a deadline that is set
C33_ActiveHoldsPiece ==
    \A r \in DOMAIN gameRooms :
        gameRooms[r].gameState = "playing" =>
            /\ gameRooms[r].activePlayerId # NULL
            /\ MapGet(gameRooms[r].assignedPieceByPlayer, gameRooms[r].activePlayerId)
                  # NoPiece
            /\ gameRooms[r].turnEndsAt > 0

\* a forced skip has just passed the turn: the new active player holds a piece and
\* the skipped roster member holds none
C33_Witness ==
    \E r \in DOMAIN gameRooms :
        /\ last.op = "tick" /\ last.rid = r
        /\ gameRooms[r].gameState = "playing"
        /\ MapGet(gameRooms[r].assignedPieceByPlayer, gameRooms[r].activePlayerId) # NoPiece
        /\ \E s \in PlayerIds(gameRooms[r].players) :
              /\ s # gameRooms[r].activePlayerId
              /\ MapGet(gameRooms[r].assignedPieceByPlayer, s) = NoPiece

\* C34: a place-item succeeds only if the shape and the color of the submitted
\* piece are those of the piece the room has assigned to the placer
C34_AssignedPieceOnly ==
    [][(last'.op = "place-item" /\ last'.res.ok) =>
          \A r \in RoomIds, c \in BoardPayloads :
              PlaceStep(last'.sid, r, c) =>
                  \E held \in {MapGet(gameRooms[r].assignedPieceByPlayer, last'.sid)} :
                      /\ held # NoPiece
                      /\ c.piece.shape = held.shape
                      /\ c.piece.color = held.color]_vars

\* C35: in every reachable state a connection is in the roster of at most one
\* room, and a connection that has disconnected is in the roster of none
C35_OneRoomPerConnection ==
    \A s \in BoardSocketIds :
        /\ Cardinality({r \in DOMAIN gameRooms : PlayersHas(gameRooms[r].players, s)}) <= 1
        /\ s \in closedConnections =>
              \A r \in DOMAIN gameRooms : ~PlayersHas(gameRooms[r].players, s)

\* the event just handled refreshes the last-activity timestamp of room r: an
\* accepted join-room, a disconnect, a successful place-item or a reset
Refreshes(r) ==
    /\ last.rid = r
    /\ \/ last.op = "disconnect"
       \/ last.op \in {"join-room", "place-item", "reset"} /\ last.res.ok

\* C36: an accepted join, a leave, a successful placement and a reset set a room's
\* lastActivity to the time of the event, and no other event (forced skip, rejected
\* placement, request-piece) changes it; so the cleanup removes a playing room of
\* two whose last refresh lies more than the idle timeout back, whatever turns the
\* tick has skipped since
C36_LastActivity ==
    [][/\ \A r \in DOMAIN gameRooms \cap DOMAIN gameRooms' :
             IF Refreshes(r)'
             THEN gameRooms'[r].lastActivity = now
             ELSE gameRooms'[r].lastActivity = gameRooms[r].lastActivity
       /\ last'.op = "cleanup" =>
             \A r \in DOMAIN gameRooms :
                 (/\ Playing2(gameRooms[r])
                  /\ now - gameRooms[r].lastActivity > IDLE_TIMEOUT_MS) =>
                     r \notin DOMAIN gameRooms']_vars

\* the tick has just skipped a turn in a playing room whose two members are
\* connected and whose last refresh lies more than the idle timeout back
C36_Witness ==
    \E r \in DOMAIN gameRooms :
        /\ last.op = "tick" /\ last.rid = r
        /\ Playing2(gameRooms[r])
        /\ gameRooms[r].turnEndsAt = now + TURN_DURATION_MS
        /\ now - gameRooms[r].lastActivity > IDLE_TIMEOUT_MS
        /\ PlayerIds(gameRooms[r].players) \subseteq activeConnections

\* C37: on the same grid, shape, rotation count and (x, y), the client's rotation
\* gives the matrix the server's rotation gives and canPlaceClient answers what
\* the server's canPlace answers
C37_ClientAgrees ==
    last.op = "server" =>
        /\ last.mat = last.rotated
        /\ last.ok = last.fits

\* the client let a drop through at a negative x and the server's canPlace agreed
C37_Witness ==
    /\ last.op = "server"
    /\ last.ok /\ last.fits
    /\ last.x < 0
    /\ last.times % 2 = 1

====
